---------------------------- MODULE Spec2Model ----------------------------
(***************************************************************************)
(* The workspace lifecycle worker of server/workspace-service               *)
(* (src/server/workspace-service/src/service.ts, class WorkspaceWorker).    *)
(*                                                                         *)
(* Three specifications share the variables of this module:                *)
(*                                                                         *)
(*   Spec     the control loop of WorkspaceWorker.start: handshake, the     *)
(*            concurrency gate, polling, idle sleep, cancellation, and up   *)
(*            to `limit` dispatched jobs running side by side.  A job is    *)
(*            followed from exec() until its finally block; what its        *)
(*            handler does inside is the subject of JobSpec.                *)
(*                                                                         *)
(*   JobSpec  one dispatched job: doWorkspaceOperation and the phase        *)
(*            handlers it routes to, step by step, for a workspace          *)
(*            snapshot and options drawn in JobInit, ending in the          *)
(*            finally block of exec().                                      *)
(*                                                                         *)
(*   JobLiveSpec  JobSpec with weak fairness on every step of the job but   *)
(*            the completion of a sendEvent, for a control-plane that may   *)
(*            fail every request.                                          *)
(***************************************************************************)
EXTENDS Integers, Sequences, FiniteSets, TLC

VARIABLES
    \* ---- WorkspaceWorker fields and the state of start() ----
    limit,          \* constructor parameter `limit`
    runningTasks,   \* this.runningTasks
    resolveBusy,    \* this.resolveBusy !== null
    wakeup,         \* this.wakeup: "default" (defaultWakeup) or "sleep" (set by doSleep)
    pc,             \* where start() stands
    canceled,       \* what isCanceled() returns
    jobs,           \* the dispatched jobs of Spec, one per slot
    unhandled,      \* a rejection escaped exec(): `void this.exec(...)` rejected
    \* ---- history of the control loop ----
    handshaken,     \* workerHandshake has returned successfully
    hsFails,        \* failed handshake attempts so far
    polls,          \* getPendingWorkspace calls issued so far
    sleeps,         \* doSleep calls so far
    analytics,      \* Analytics.handleError calls at the dispatched-task boundary
    signals,        \* resolveBusy() calls made by the finally block of exec
    fired,          \* wakeup() calls made on the worker
    sleepHandle,    \* the timer of the latest doSleep: "armed" or "none"
    woken,          \* idle sleeps that were ended by a wakeup() call
    \* ---- one job in detail (JobSpec) ----
    ws,             \* the WorkspaceInfo snapshot handed to doWorkspaceOperation
    opt,            \* WorkspaceOptions, fulltextUrl and process.env.MIGRATION_CLEANUP
    jpc,            \* where the job stands
    trace,          \* control-plane events and external calls of the job, in order
    progress,       \* `let progress = 0` of doBackup / doRestore
    notifyInt,      \* the keepalive interval is set
    adapterOpen,    \* workspaceStorageAdapter is built and not closed
    loggerOpen,     \* a FileModelLogger is open
    err,            \* an error is propagating through the handler
    nReports,       \* report callbacks made by the external backup / restore
    nPings,         \* keepalive ticks so far
    nExt,           \* progress events sent by the external create / upgrade
    extResult,      \* how the external operation of the phase ended
    pingsInFlight,  \* keepalive updates whose retry wrapper has not settled
    pingRetries,    \* attempts the retry wrappers of the keepalive updates repeated
    latePing,       \* a keepalive request went out after the job had ended
    sideFailed,     \* the best-effort side calls of the job that failed
    reported,       \* the rounded percents the report callback was called with
    timedOut,       \* the updates that still failed when their 5 s were spent
    lateFetches     \* getPendingWorkspace calls made after the cancel request

loopVars == <<pc, canceled, jobs, unhandled, handshaken, hsFails, polls, sleeps,
              analytics, wakeup, signals, fired, sleepHandle, woken,
              lateFetches>>
gateVars == <<limit, runningTasks, resolveBusy>>
jobVars  == <<ws, opt, jpc, trace, progress, notifyInt, adapterOpen, loggerOpen,
              err, nReports, nPings, nExt, extResult, pingsInFlight, pingRetries,
              latePing, sideFailed, reported, timedOut>>
vars     == <<loopVars, gateVars, jobVars>>

-----------------------------------------------------------------------------
(* Bounds of the model *)

MaxLimit == 2
MaxHandshakeFails == 2
MaxPolls == 4
MaxFirings == 2

\* one slot more than any limit, so that a job too many has a place to show
Slots == 1..(MaxLimit + 1)

\* workspace ids the control-plane may hand out to the loop of Spec
Workspaces == {"w1", "w2"}

-----------------------------------------------------------------------------
(* The concurrency gate *)

hasAvailableThread_Off == runningTasks <= limit

\* hasAvailableThread (): boolean
hasAvailableThread == runningTasks < limit

Free == [st |-> "free", ws |-> "-"]

Occupied == {s \in Slots : jobs[s].st # "free"}

\* the slot a new job is kept in (the lowest free one; slots only name jobs)
FreeSlot == CHOOSE s \in Slots \ Occupied : \A t \in Slots \ Occupied : s <= t

-----------------------------------------------------------------------------
(* start(): handshake *)

HandshakeFail_Break ==
    /\ pc = "handshake"
    /\ hsFails < MaxHandshakeFails
    /\ hsFails' = hsFails + 1
    /\ pc' = "loop"
    /\ UNCHANGED <<canceled, jobs, unhandled, handshaken, polls, sleeps,
                   analytics, wakeup, gateVars, jobVars, signals, fired,
                   sleepHandle, woken, lateFetches>>

\* withRetryConnUntilSuccess(workerHandshake) fails (a connection error retried
\* inside the wrapper, or an error thrown, caught and logged by the while loop):
\* the loop tries again
HandshakeFail ==
    /\ pc = "handshake"
    /\ hsFails < MaxHandshakeFails
    /\ hsFails' = hsFails + 1
    /\ UNCHANGED <<pc, canceled, jobs, unhandled, handshaken, polls, sleeps,
                   analytics, wakeup, gateVars, jobVars, signals, fired,
                   sleepHandle, woken, lateFetches>>

\* the handshake returns: break, register the adapter factories
HandshakeOk ==
    /\ pc = "handshake"
    /\ handshaken' = TRUE
    /\ pc' = "loop"
    /\ UNCHANGED <<canceled, jobs, unhandled, hsFails, polls, sleeps, analytics,
                   wakeup, gateVars, jobVars, signals, fired, sleepHandle,
                   woken, lateFetches>>

-----------------------------------------------------------------------------
(* start(): the poll loop *)

\* while (!isCanceled()) { await this.waitForAvailableThread() ...
\* the test of the loop and the synchronous part of waitForAvailableThread
LoopTest_EagerResolver ==
    /\ pc = "loop"
    /\ IF canceled
         THEN pc' = "returned" /\ UNCHANGED resolveBusy
         ELSE /\ resolveBusy' = TRUE
              /\ pc' = IF hasAvailableThread THEN "acquired" ELSE "gateWait"
    /\ UNCHANGED <<canceled, jobs, unhandled, handshaken, hsFails, polls,
                   sleeps, analytics, wakeup, limit, runningTasks, jobVars,
                   signals, fired, sleepHandle, woken, lateFetches>>

LoopTest_IgnoresCancel ==
    /\ pc = "loop"
    /\ IF hasAvailableThread
         THEN pc' = "acquired" /\ UNCHANGED resolveBusy
         ELSE pc' = "gateWait" /\ resolveBusy' = TRUE
    /\ UNCHANGED <<canceled, jobs, unhandled, handshaken, hsFails, polls,
                   sleeps, analytics, wakeup, limit, runningTasks, jobVars,
                   signals, fired, sleepHandle, woken, lateFetches>>

LoopTest ==
    /\ pc = "loop"
    /\ IF canceled
         THEN pc' = "returned" /\ UNCHANGED resolveBusy
         ELSE IF hasAvailableThread
                THEN pc' = "acquired" /\ UNCHANGED resolveBusy
                ELSE pc' = "gateWait" /\ resolveBusy' = TRUE
    /\ UNCHANGED <<canceled, jobs, unhandled, handshaken, hsFails, polls,
                   sleeps, analytics, wakeup, limit, runningTasks, jobVars,
                   signals, fired, sleepHandle, woken, lateFetches>>

\* the gate has let the poller through: getPendingWorkspace is called
GetPending ==
    /\ pc = "acquired"
    /\ polls < MaxPolls
    /\ polls' = polls + 1
    /\ lateFetches' = IF canceled THEN lateFetches + 1 ELSE lateFetches
    /\ pc' = "poll"
    /\ UNCHANGED <<canceled, jobs, unhandled, handshaken, hsFails, sleeps,
                   analytics, wakeup, gateVars, jobVars, signals, fired,
                   sleepHandle, woken>>

\* doSleep: the timer is armed and this.wakeup replaced
doSleep ==
    /\ sleepHandle' = "armed"            \* setTimeout(wakeup, opt.waitTimeout)
    /\ wakeup' = "sleep"
    /\ sleeps' = sleeps + 1
    /\ pc' = "sleep"

\* getPendingWorkspace returned undefined
PollNothing ==
    /\ pc = "poll"
    /\ doSleep
    /\ UNCHANGED <<canceled, jobs, unhandled, handshaken, hsFails, polls,
                   analytics, gateVars, jobVars, signals, fired, woken,
                   lateFetches>>

PollError_Fatal ==
    /\ pc = "poll"
    /\ pc' = "returned"
    /\ UNCHANGED <<canceled, jobs, unhandled, handshaken, hsFails, polls,
                   sleeps, wakeup, analytics, gateVars, jobVars, signals, fired,
                   sleepHandle, woken, lateFetches>>

\* getPendingWorkspace threw: logged, the callback returns undefined
PollError ==
    /\ pc = "poll"
    /\ doSleep
    /\ UNCHANGED <<canceled, jobs, unhandled, handshaken, hsFails, polls,
                   analytics, gateVars, jobVars, signals, fired, woken,
                   lateFetches>>

\* getPendingWorkspace returned a workspace: void this.exec(...), which counts
\* the job in and starts its handler before the loop goes round
PollWorkspace(w) ==
    /\ pc = "poll"
    /\ runningTasks' = runningTasks + 1
    /\ jobs' = [jobs EXCEPT ![FreeSlot] = [st |-> "running", ws |-> w]]
    /\ pc' = "loop"
    /\ UNCHANGED <<canceled, unhandled, handshaken, hsFails, polls, sleeps,
                   analytics, wakeup, limit, resolveBusy, jobVars, signals,
                   fired, sleepHandle, woken, lateFetches>>

\* the wakeup closure of doSleep: resolve(); this.wakeup = this.defaultWakeup
Resolve ==
    /\ pc' = IF pc = "sleep" THEN "loop" ELSE pc
    /\ wakeup' = "default"

\* the timer of doSleep fires and runs the wakeup closure
SleepTimeout ==
    /\ sleepHandle = "armed"
    /\ sleepHandle' = "none"
    /\ Resolve
    /\ UNCHANGED <<canceled, jobs, unhandled, handshaken, hsFails, polls,
                   sleeps, analytics, gateVars, jobVars, signals, fired, woken,
                   lateFetches>>

FireWakeup_NoClear ==
    /\ fired < MaxFirings
    /\ fired' = fired + 1
    /\ IF wakeup = "sleep"
         THEN /\ Resolve
              /\ woken' = woken + 1
         ELSE UNCHANGED <<wakeup, pc, woken>>
    /\ UNCHANGED <<canceled, jobs, unhandled, handshaken, hsFails, polls,
                   sleeps, analytics, gateVars, jobVars, signals, sleepHandle,
                   lateFetches>>

\* somebody calls worker.wakeup(): the function doSleep installed clears the
\* timer and runs the wakeup closure; the default one does nothing to the worker
FireWakeup ==
    /\ fired < MaxFirings
    /\ fired' = fired + 1
    /\ IF wakeup = "sleep"
         THEN /\ sleepHandle' = "none"      \* clearTimeout(sleepHandle)
              /\ Resolve
              /\ woken' = woken + 1
         ELSE UNCHANGED <<wakeup, pc, sleepHandle, woken>>
    /\ UNCHANGED <<canceled, jobs, unhandled, handshaken, hsFails, polls,
                   sleeps, analytics, gateVars, jobVars, signals, lateFetches>>

\* the owner of the worker requests cancellation
Cancel ==
    /\ ~canceled
    /\ canceled' = TRUE
    /\ UNCHANGED <<pc, jobs, unhandled, handshaken, hsFails, polls, sleeps,
                   analytics, wakeup, gateVars, jobVars, signals, fired,
                   sleepHandle, woken,
                   lateFetches>>

-----------------------------------------------------------------------------
(* exec() and the dispatched task *)

CatchBoundary_Missing(st) == st

\* doWorkspaceOperation(...).catch((err) => { Analytics.handleError(err); ... })
CatchBoundary(st) == IF st = "rejected" THEN "consumed" ELSE st

ExecFinally_KeepsSignal ==
    /\ runningTasks' = runningTasks - 1
    /\ UNCHANGED resolveBusy

\* op().finally(() => { this.runningTasks--; if (this.resolveBusy !== null) ... })
ExecFinally ==
    /\ runningTasks' = runningTasks - 1
    /\ resolveBusy' = FALSE

\* the handler of a running job returns
HandlerReturn(s) ==
    /\ jobs[s].st = "running"
    /\ jobs' = [jobs EXCEPT ![s].st = "fulfilled"]
    /\ UNCHANGED <<pc, canceled, unhandled, handshaken, hsFails, polls, sleeps,
                   analytics, wakeup, gateVars, jobVars, signals, fired,
                   sleepHandle, woken, lateFetches>>

\* the handler of a running job throws
HandlerThrow(s) ==
    /\ jobs[s].st = "running"
    /\ jobs' = [jobs EXCEPT ![s].st = "rejected"]
    /\ UNCHANGED <<pc, canceled, unhandled, handshaken, hsFails, polls, sleeps,
                   analytics, wakeup, gateVars, jobVars, signals, fired,
                   sleepHandle, woken, lateFetches>>

\* the promise of the job settles: .catch, then .finally of exec
JobEnd(s) ==
    /\ jobs[s].st \in {"fulfilled", "rejected"}
    /\ analytics' = IF CatchBoundary(jobs[s].st) = "consumed" THEN TRUE ELSE analytics
    /\ unhandled' = (unhandled \/ CatchBoundary(jobs[s].st) = "rejected")
    /\ ExecFinally
    /\ pc' = IF resolveBusy THEN "acquired" ELSE pc    \* this.resolveBusy()
    /\ signals' = IF resolveBusy THEN signals + 1 ELSE signals
    /\ jobs' = [jobs EXCEPT ![s] = Free]
    /\ UNCHANGED <<canceled, handshaken, hsFails, polls, sleeps, wakeup, limit,
                   jobVars, fired, sleepHandle, woken, lateFetches>>

-----------------------------------------------------------------------------
(* One job in detail: the data *)

MaxReports == 2
MaxPings == 1
MaxPingRetries == 1
MaxExtProgress == 1

\* optional values: <<>> is undefined, <<v>> is v;  x ?? d
Nullish(x, d) == IF x = <<>> THEN d ELSE x[1]

\* String.prototype.includes: t occurs in s as a substring
Includes(s, t) ==
    \E i \in 0..(Len(s) - Len(t)) : SubSeq(s, i + 1, i + Len(t)) = t

\* the entries of a comma-separated list: the maximal comma-free stretches of s
Entries(s) ==
    { SubSeq(s, i, j) : <<i, j>> \in
        { ij \in (1..(Len(s) + 1)) \X (0..Len(s)) :
            /\ ij[1] <= ij[2] + 1
            /\ \A k \in ij[1]..ij[2] : s[k] # ","
            /\ (ij[1] = 1 \/ s[ij[1] - 1] = ",")
            /\ (ij[2] = Len(s) \/ s[ij[2] + 1] = ",") } }

\* Math.round of a non-negative value given in tenths
Round(t) == (t + 5) \div 10

CreateModes  == {"pending-creation", "creating"}
UpgradeModes == {"upgrading", "active"}
ArchivingModes == {"archiving-pending-backup", "archiving-backup",
                   "archiving-pending-clean", "archiving-clean"}
MigrationModes == {"migration-pending-backup", "migration-backup",
                   "migration-pending-clean", "migration-clean"}
RestoringModes == {"pending-restore", "restoring"}
DeletingModes  == {"pending-deletion", "deleting"}

KnownModes == CreateModes \cup UpgradeModes \cup ArchivingModes \cup MigrationModes
              \cup RestoringModes \cup DeletingModes

\* a mode value the switch does not list
UnknownModes == {"archived"}

isArchivingMode(m) == m # <<>> /\ m[1] \in ArchivingModes
isMigrationMode(m) == m # <<>> /\ m[1] \in MigrationModes
isRestoringMode(m) == m # <<>> /\ m[1] \in RestoringModes

Handler_Misrouted(m) ==
    CASE m \in {"pending-creation", "creating"} -> "Create"
      [] m \in {"upgrading", "active"} -> "Upgrade"
      [] m \in {"archiving-pending-backup", "archiving-backup"} -> "ArchiveBackup"
      [] m \in {"archiving-pending-clean", "archiving-clean"} -> "ArchiveClean"
      [] m \in {"pending-deletion"} -> "Delete"
      [] m \in {"deleting"} -> "ArchiveClean"
      [] m \in {"migration-pending-backup", "migration-backup"} -> "MigrateBackup"
      [] m \in {"migration-pending-clean", "migration-clean"} -> "MigrateClean"
      [] m \in {"pending-restore", "restoring"} -> "Restore"
      [] OTHER -> "Unknown"

\* switch (workspace.mode ?? 'active'): the case a mode value selects
Handler(m) ==
    CASE m \in {"pending-creation", "creating"} -> "Create"
      [] m \in {"upgrading", "active"} -> "Upgrade"
      [] m \in {"archiving-pending-backup", "archiving-backup"} -> "ArchiveBackup"
      [] m \in {"archiving-pending-clean", "archiving-clean"} -> "ArchiveClean"
      [] m \in {"pending-deletion", "deleting"} -> "Delete"
      [] m \in {"migration-pending-backup", "migration-backup"} -> "MigrateBackup"
      [] m \in {"migration-pending-clean", "migration-clean"} -> "MigrateClean"
      [] m \in {"pending-restore", "restoring"} -> "Restore"
      [] OTHER -> "Unknown"

\* the handler of the job at hand
H == Handler(Nullish(ws.mode, "active"))

\* the events of a phase
Started(h) ==
    CASE h = "Create" -> "create-started"
      [] h = "Upgrade" -> "upgrade-started"
      [] h = "ArchiveBackup" -> "archiving-backup-started"
      [] h = "ArchiveClean" -> "archiving-clean-started"
      [] h = "Delete" -> "delete-started"
      [] h = "MigrateBackup" -> "migrate-backup-started"
      [] h = "MigrateClean" -> "migrate-clean-started"
      [] h = "Restore" -> "restore-started"
      [] OTHER -> "-"

Done(h) ==
    CASE h = "Create" -> "create-done"
      [] h = "Upgrade" -> "upgrade-done"
      [] h = "ArchiveBackup" -> "archiving-backup-done"
      [] h = "ArchiveClean" -> "archiving-clean-done"
      [] h = "Delete" -> "delete-done"
      [] h = "MigrateBackup" -> "migrate-backup-done"
      [] h = "MigrateClean" -> "migrate-clean-done"
      [] h = "Restore" -> "restore-done"
      [] OTHER -> "-"

DoneProgress_Hundred(h) == 100

\* the progress value the -done event of a phase carries
DoneProgress(h) == IF h = "MigrateClean" THEN 0 ELSE 100

\* entries of the trace: updateWorkspaceInfo(token, ws, e, version, p, ...) and
\* a call of an external collaborator with its distinguishing argument
Ev(e, p)   == [k |-> "event", e |-> e, p |-> p]
Call(e, a) == [k |-> "call", e |-> e, p |-> a]

Emit(x) == trace' = Append(trace, x)

B2N(b) == IF b THEN 1 ELSE 0

-----------------------------------------------------------------------------
(* One job in detail: doWorkspaceOperation *)

\* what a step of the job leaves alone
WorkerFrame == UNCHANGED <<loopVars, gateVars, ws, opt>>

\* the same, when no update under the 5 s retry wrapper is made or settled
LoopFrame == WorkerFrame /\ UNCHANGED <<reported, timedOut>>

\* an update under withRetryConnUntilTimeout(..., 5000) gave up
TimesOut(u) == timedOut' = timedOut \cup {u}

\* what a step of the handler leaves alone
HandlerFrame == LoopFrame /\ UNCHANGED <<pingsInFlight, pingRetries, latePing>>

\* what a step in which no side call fails leaves alone
JobFrame == HandlerFrame /\ UNCHANGED sideFailed

\* a best-effort side call failed
SideFails(c) == sideFailed' = sideFailed \cup {c}

\* the guard of _upgradeWorkspace: the workspace is left alone
UpgradeSkipped ==
    \/ ws.disabled = TRUE
    \/ isArchivingMode(ws.mode)
    \/ isMigrationMode(ws.mode)
    \/ isRestoringMode(ws.mode)
    \/ Includes(Nullish(opt.ignore, <<>>), ws.workspace)

CreateRuns_Off == ws.mode # <<"creating">> \/ Nullish(ws.progress, 0) <= 30

\* _createWorkspace: the init script is run (again)
CreateRuns == ws.mode # <<"creating">> \/ Nullish(ws.progress, 0) < 30

\* const logger = opt.console ? ctxModelLogger : new FileModelLogger(...)
OpenLogger == loggerOpen' = ~opt.console

\* finally { if (!opt.console) { logger.close() } }
CloseLogger == loggerOpen' = FALSE

\* doWorkspaceOperation up to its first await: the switch, and for Create and
\* Upgrade the handler up to the external call
Dispatch ==
    /\ jpc = "dispatch"
    /\ CASE H = "Create" ->
              /\ OpenLogger
              /\ IF CreateRuns
                   THEN Emit(Call("createWorkspace", 0)) /\ jpc' = "ext.entry"
                   ELSE /\ Emit(Ev("create-done", Nullish(ws.progress, 0)))
                        /\ jpc' = "resume.sending"
         [] H = "Upgrade" ->
              IF UpgradeSkipped
                THEN jpc' = "returned" /\ UNCHANGED <<trace, loggerOpen>>
                ELSE /\ OpenLogger
                     /\ Emit(Call("upgradeWorkspace", 0))
                     /\ jpc' = "ext.entry"
         [] H = "Unknown" ->
              jpc' = "returned" /\ UNCHANGED <<trace, loggerOpen>>
         [] OTHER ->
              /\ Emit(Ev(Started(H), 0))
              /\ jpc' = "started.sending"
              /\ UNCHANGED loggerOpen
    /\ UNCHANGED <<progress, notifyInt, adapterOpen, err, nReports, nPings, nExt,
                   extResult>>
    /\ JobFrame

(* ---- the external createWorkspace / upgradeWorkspace of ./ws-operations ---- *)

\* the operation reports <phase>-started with progress 0 at entry
ExtStarted ==
    /\ jpc = "ext.entry"
    /\ Emit(Ev(Started(H), 0))
    /\ jpc' = "ext.run"
    /\ UNCHANGED <<progress, notifyInt, adapterOpen, loggerOpen, err, nReports,
                   nPings, nExt, extResult>>
    /\ JobFrame

\* the operation reports progress
ExtProgress(p) ==
    /\ jpc = "ext.run"
    /\ nExt < MaxExtProgress
    /\ nExt' = nExt + 1
    /\ Emit(Ev("progress", p))
    /\ UNCHANGED <<jpc, progress, notifyInt, adapterOpen, loggerOpen, err, nReports,
                   nPings, extResult>>
    /\ JobFrame

\* the operation succeeds: <phase>-done with progress 100, then it returns and
\* the try block ends; finally closes the logger
ExtDone ==
    /\ jpc = "ext.run"
    /\ Emit(Ev(Done(H), 100))
    /\ CloseLogger
    /\ jpc' = "returned"
    /\ extResult' = "ok"
    /\ UNCHANGED <<progress, notifyInt, adapterOpen, err, nReports, nPings, nExt>>
    /\ JobFrame

\* the operation throws
ExtThrow ==
    /\ jpc = "ext.run"
    /\ err' = TRUE
    /\ jpc' = "catch"
    /\ extResult' = "threw"
    /\ UNCHANGED <<trace, progress, notifyInt, adapterOpen, loggerOpen, nReports,
                   nPings, nExt>>
    /\ JobFrame

(* ---- _createWorkspace / _upgradeWorkspace: resume, catch and finally ---- *)

\* the create-done update of the resume branch went through
ResumeSent ==
    /\ jpc = "resume.sending"
    /\ CloseLogger
    /\ jpc' = "returned"
    /\ UNCHANGED <<trace, progress, notifyInt, adapterOpen, err, nReports, nPings,
                   nExt, extResult>>
    /\ JobFrame

\* the create-done update still fails when its 5 s are spent: it throws
ResumeTimeout ==
    /\ jpc = "resume.sending"
    /\ TimesOut("create-done")
    /\ err' = TRUE
    /\ jpc' = "catch"
    /\ UNCHANGED <<trace, progress, notifyInt, adapterOpen, loggerOpen, nReports,
                   nPings, nExt, extResult, pingsInFlight, pingRetries, latePing,
                   sideFailed, reported>>
    /\ WorkerFrame

\* catch (err) { await opt.errorHandler(ws, err) ...
CatchPhaseError ==
    /\ jpc = "catch"
    /\ Emit(Call("errorHandler", 0))
    /\ jpc' = "errorHandler"
    /\ UNCHANGED <<progress, notifyInt, adapterOpen, loggerOpen, err, nReports,
                   nPings, nExt, extResult>>
    /\ JobFrame

\* errorHandler returns: the error is logged and dropped; finally
ErrorHandlerReturn ==
    /\ jpc = "errorHandler"
    /\ err' = FALSE
    /\ CloseLogger
    /\ jpc' = "returned"
    /\ UNCHANGED <<trace, progress, notifyInt, adapterOpen, nReports, nPings, nExt,
                   extResult>>
    /\ JobFrame

\* errorHandler itself throws: finally, and the error leaves the handler
ErrorHandlerThrow ==
    /\ jpc = "errorHandler"
    /\ CloseLogger
    /\ jpc' = "thrown"
    /\ UNCHANGED <<trace, progress, notifyInt, adapterOpen, err, nReports, nPings,
                   nExt, extResult>>
    /\ JobFrame

(* ---- the phases that report through sendEvent ---- *)

\* doCleanup up to adapter.deleteWorkspace(...)
BeginCleanup ==
    /\ Emit(Call("deleteWorkspace", 0))
    /\ jpc' = "deleteWorkspace"
BeginBackup_NoOptionCheck(ext, arg) ==
    /\ adapterOpen' = TRUE
    /\ progress' = 0
    /\ notifyInt' = TRUE
    /\ Emit(Call(ext, arg))
    /\ jpc' = "ext.backup"

\* doBackup / doRestore up to the external operation: without opt.backup they
\* return false and the case ends; otherwise the storage adapter is built,
\* progress set to 0 and the keepalive interval started
BeginBackup(ext, arg) ==
    IF ~opt.backup
      THEN jpc' = "returned" /\ UNCHANGED <<trace, progress, notifyInt, adapterOpen>>
      ELSE /\ adapterOpen' = TRUE
           /\ progress' = 0
           /\ notifyInt' = TRUE
           /\ Emit(Call(ext, arg))
           /\ jpc' = "ext.backup"

\* await sendEvent('<phase>-done', ...)
SendDone ==
    /\ Emit(Ev(Done(H), DoneProgress(H)))
    /\ jpc' = "done.sending"

\* doReindexFulltext(ctx, workspace, clearIndexes), and the -done event that
\* follows it in every caller when no request is made
BeginReindex(clearIndexes) ==
    IF opt.fulltextUrl
      THEN Emit(Call("reindex", B2N(clearIndexes))) /\ jpc' = "reindex"
      ELSE SendDone

\* what follows `await this.sendTransactorMaitenance(...)` in its four cases
AfterMaintenance ==
    CASE H = "ArchiveBackup" -> BeginBackup("doBackupWorkspace", 1)
      [] H = "MigrateBackup" -> BeginBackup("doBackupWorkspace", 0)
      [] H = "Delete" ->
           BeginCleanup /\ UNCHANGED <<progress, notifyInt, adapterOpen>>
      [] H = "MigrateClean" ->
           /\ IF opt.migrationCleanup = <<"true">> THEN BeginCleanup ELSE SendDone
           /\ UNCHANGED <<progress, notifyInt, adapterOpen>>

\* the phases whose case calls sendTransactorMaitenance after the -started event
Maintained(h) == h \in {"ArchiveBackup", "Delete", "MigrateBackup", "MigrateClean"}

StartedSent_OnlyWhenDestroying ==
    /\ jpc = "started.sending"
    /\ CASE H = "Delete" \/ (H = "MigrateClean" /\ opt.migrationCleanup = <<"true">>) ->
              /\ Emit(Call("sendTransactorMaitenance", 0))
              /\ jpc' = "maint.endpoint"
              /\ UNCHANGED <<progress, notifyInt, adapterOpen>>
         [] H = "ArchiveClean" ->
              BeginCleanup /\ UNCHANGED <<progress, notifyInt, adapterOpen>>
         [] H = "Restore" -> BeginBackup("doRestoreWorkspace", 0)
         [] OTHER -> AfterMaintenance
    /\ UNCHANGED <<loggerOpen, err, nReports, nPings, nExt, extResult>>
    /\ JobFrame

\* the -started event is through; the case goes on to its next call
StartedSent ==
    /\ jpc = "started.sending"
    /\ CASE Maintained(H) ->
              /\ Emit(Call("sendTransactorMaitenance", 0))
              /\ jpc' = "maint.endpoint"
              /\ UNCHANGED <<progress, notifyInt, adapterOpen>>
         [] H = "ArchiveClean" ->
              BeginCleanup /\ UNCHANGED <<progress, notifyInt, adapterOpen>>
         [] H = "Restore" -> BeginBackup("doRestoreWorkspace", 0)
    /\ UNCHANGED <<loggerOpen, err, nReports, nPings, nExt, extResult>>
    /\ JobFrame

\* sendTransactorMaitenance: getTransactorEndpoint throws; caught and ignored
EndpointFail ==
    /\ jpc = "maint.endpoint"
    /\ AfterMaintenance
    /\ SideFails("getTransactorEndpoint")
    /\ UNCHANGED <<loggerOpen, err, nReports, nPings, nExt, extResult>>
    /\ HandlerFrame

\* sendTransactorMaitenance: the endpoint is known, the force-close PUT is sent
EndpointOk ==
    /\ jpc = "maint.endpoint"
    /\ Emit(Call("force-close", 0))
    /\ jpc' = "maint.put"
    /\ UNCHANGED <<progress, notifyInt, adapterOpen, loggerOpen, err, nReports,
                   nPings, nExt, extResult>>
    /\ JobFrame

\* the PUT is answered, 2xx (ok) or not: its status is not looked at
ForceCloseAnswered(ok) ==
    /\ jpc = "maint.put"
    /\ AfterMaintenance
    /\ IF ok THEN UNCHANGED sideFailed ELSE SideFails("force-close")
    /\ UNCHANGED <<loggerOpen, err, nReports, nPings, nExt, extResult>>
    /\ HandlerFrame

\* the PUT throws; caught and ignored
ForceCloseFail ==
    /\ jpc = "maint.put"
    /\ AfterMaintenance
    /\ SideFails("force-close")
    /\ UNCHANGED <<loggerOpen, err, nReports, nPings, nExt, extResult>>
    /\ HandlerFrame

CleanIndexes_Always(h) == TRUE

\* the phases whose doCleanup drops the workspace (onlyDrop: true)
CleanIndexes(h) == h = "Delete"

\* deleteWorkspace returned: doCleanup goes on to doReindexFulltext
DeleteOk ==
    /\ jpc = "deleteWorkspace"
    /\ BeginReindex(CleanIndexes(H))
    /\ extResult' = "ok"
    /\ UNCHANGED <<progress, notifyInt, adapterOpen, loggerOpen, err, nReports,
                   nPings, nExt>>
    /\ JobFrame

DeleteThrow_NoReturn ==
    /\ jpc = "deleteWorkspace"
    /\ extResult' = "threw"
    /\ trace' = trace \o <<Call("Analytics.handleError", 0),
                           Ev(Done(H), DoneProgress(H))>>
    /\ jpc' = "done.sending"
    /\ UNCHANGED <<progress, notifyInt, adapterOpen, loggerOpen, err, nReports,
                   nPings, nExt>>
    /\ JobFrame

\* doCleanup threw: catch (err) { Analytics.handleError(err); return }
DeleteThrow ==
    /\ jpc = "deleteWorkspace"
    /\ Emit(Call("Analytics.handleError", 0))
    /\ jpc' = "returned"
    /\ extResult' = "threw"
    /\ UNCHANGED <<progress, notifyInt, adapterOpen, loggerOpen, err, nReports,
                   nPings, nExt>>
    /\ JobFrame

\* the reindex request is answered 2xx
ReindexOk ==
    /\ jpc = "reindex"
    /\ SendDone
    /\ UNCHANGED <<progress, notifyInt, adapterOpen, loggerOpen, err, nReports,
                   nPings, nExt, extResult>>
    /\ JobFrame

ReindexFail_Fatal ==
    /\ jpc = "reindex"
    /\ SideFails("reindex")
    /\ err' = TRUE
    /\ jpc' = "thrown"
    /\ UNCHANGED <<trace, progress, notifyInt, adapterOpen, loggerOpen, nReports,
                   nPings, nExt, extResult>>
    /\ HandlerFrame

\* the reindex request throws or is answered non-2xx: logged, swallowed
ReindexFail ==
    /\ jpc = "reindex"
    /\ SendDone
    /\ SideFails("reindex")
    /\ UNCHANGED <<progress, notifyInt, adapterOpen, loggerOpen, err, nReports,
                   nPings, nExt, extResult>>
    /\ HandlerFrame

\* sendEvent is withRetryConnUntilSuccess(updateWorkspaceInfo): a request for the
\* -started or -done event fails and is made again, for as long as it fails
SendEventRetry ==
    /\ jpc \in {"started.sending", "done.sending"}
    /\ UNCHANGED vars

\* the -done event is through: break, doWorkspaceOperation returns
DoneSent ==
    /\ jpc = "done.sending"
    /\ jpc' = "returned"
    /\ UNCHANGED <<trace, progress, notifyInt, adapterOpen, loggerOpen, err,
                   nReports, nPings, nExt, extResult>>
    /\ JobFrame

(* ---- doBackup / doRestore around the external operation ---- *)

\* raw progress values the external operation may report, in tenths of a percent
RawValues == {4, 5, 14, 506}

Report_NoDebounce(raw, ok) ==
    /\ jpc = "ext.backup"
    /\ nReports < MaxReports
    /\ nReports' = nReports + 1
    /\ reported' = Append(reported, Round(raw))
    /\ progress' = Round(raw)
    /\ Emit(Ev("progress", Round(raw)))
    /\ IF ok THEN UNCHANGED timedOut ELSE TimesOut("progress")
    /\ UNCHANGED <<jpc, notifyInt, adapterOpen, loggerOpen, err, nPings, nExt,
                   extResult, pingsInFlight, pingRetries, latePing, sideFailed>>
    /\ WorkerFrame

\* the report callback: (_p) => { if (progress !== Math.round(_p)) { ... } }
\* the update it returns to the external operation goes through (ok) or gives
\* up after its 5 s; what the external operation makes of that is its own
Report(raw, ok) ==
    /\ jpc = "ext.backup"
    /\ nReports < MaxReports
    /\ nReports' = nReports + 1
    /\ reported' = Append(reported, Round(raw))
    /\ IF progress # Round(raw)
         THEN /\ progress' = Round(raw)
              /\ Emit(Ev("progress", Round(raw)))
              /\ IF ok THEN UNCHANGED timedOut ELSE TimesOut("progress")
         ELSE UNCHANGED <<progress, trace, timedOut>>
    /\ UNCHANGED <<jpc, notifyInt, adapterOpen, loggerOpen, err, nPings, nExt,
                   extResult, pingsInFlight, pingRetries, latePing, sideFailed>>
    /\ WorkerFrame

\* the keepalive interval fires: void handleWsEventWithRetry('ping', ..., progress)
\* the first request goes out at once and nobody awaits the update
Tick ==
    /\ notifyInt
    /\ nPings < MaxPings
    /\ nPings' = nPings + 1
    /\ Emit(Ev("ping", progress))
    /\ pingsInFlight' = pingsInFlight + 1
    /\ UNCHANGED <<jpc, progress, notifyInt, adapterOpen, loggerOpen, err, nReports,
                   nExt, extResult, pingRetries, latePing>>
    /\ UNCHANGED sideFailed
    /\ LoopFrame

\* withRetryConnUntilTimeout(..., 5000) around a keepalive update: the request
\* failed with a connection error before the 5 s are spent, and is sent again
PingRetry ==
    /\ pingsInFlight > 0
    /\ pingRetries < MaxPingRetries
    /\ pingRetries' = pingRetries + 1
    /\ latePing' = (latePing \/ jobs[1].st = "free")
    /\ UNCHANGED <<jpc, trace, progress, notifyInt, adapterOpen, loggerOpen, err,
                   nReports, nPings, nExt, extResult, pingsInFlight>>
    /\ UNCHANGED sideFailed
    /\ LoopFrame

\* a keepalive update settles: it is answered (ok), or gives up when its 5 s
\* are spent; nobody holds its promise
PingSettles(ok) ==
    /\ pingsInFlight > 0
    /\ pingsInFlight' = pingsInFlight - 1
    /\ IF ok THEN UNCHANGED timedOut ELSE TimesOut("ping")
    /\ UNCHANGED <<jpc, trace, progress, notifyInt, adapterOpen, loggerOpen, err,
                   nReports, nPings, nExt, extResult, pingRetries, latePing>>
    /\ UNCHANGED <<sideFailed, reported>>
    /\ WorkerFrame

\* the external operation settles (r: "true", "false" or "throw"); finally
\* clears the interval and calls workspaceStorageAdapter.close()
BackupSettles(r) ==
    /\ jpc = "ext.backup"
    /\ notifyInt' = FALSE
    /\ err' = (r = "throw")
    /\ jpc' = "closing." \o r
    /\ extResult' = (CASE r = "true" -> "ok" [] r = "false" -> "false" [] OTHER -> "threw")
    /\ UNCHANGED <<trace, progress, adapterOpen, loggerOpen, nReports, nPings, nExt>>
    /\ JobFrame

AdapterClosed_DoneOnFalse ==
    /\ jpc \in {"closing.true", "closing.false", "closing.throw"}
    /\ adapterOpen' = FALSE
    /\ CASE jpc = "closing.true" ->
              IF H = "Restore" THEN BeginReindex(FALSE) ELSE SendDone
         [] jpc = "closing.false" -> SendDone
         [] jpc = "closing.throw" -> jpc' = "thrown" /\ UNCHANGED trace
    /\ UNCHANGED <<progress, notifyInt, loggerOpen, err, nReports, nPings, nExt,
                   extResult>>
    /\ JobFrame

\* the adapter is closed; doBackup / doRestore returns or rethrows, and the
\* case goes on
AdapterClosed ==
    /\ jpc \in {"closing.true", "closing.false", "closing.throw"}
    /\ adapterOpen' = FALSE
    /\ CASE jpc = "closing.true" ->
              IF H = "Restore" THEN BeginReindex(FALSE) ELSE SendDone
         [] jpc = "closing.false" -> jpc' = "returned" /\ UNCHANGED trace
         [] jpc = "closing.throw" -> jpc' = "thrown" /\ UNCHANGED trace
    /\ UNCHANGED <<progress, notifyInt, loggerOpen, err, nReports, nPings, nExt,
                   extResult>>
    /\ JobFrame

(* ---- the dispatched task around the handler ---- *)

\* doWorkspaceOperation returned: the promise of the job is fulfilled
JobReturns ==
    /\ jpc = "returned"
    /\ HandlerReturn(1)

\* doWorkspaceOperation threw: the promise of the job is rejected
JobThrows ==
    /\ jpc = "thrown"
    /\ HandlerThrow(1)

-----------------------------------------------------------------------------
(* The control loop *)

JobIdle ==
    /\ ws = [workspace |-> <<>>, mode |-> <<>>, progress |-> <<>>, disabled |-> FALSE]
    /\ opt = [console |-> TRUE, ignore |-> <<>>, backup |-> FALSE,
              fulltextUrl |-> FALSE, migrationCleanup |-> <<>>]
    /\ jpc = "none"
    /\ trace = <<>>
    /\ progress = 0
    /\ notifyInt = FALSE
    /\ adapterOpen = FALSE
    /\ loggerOpen = FALSE
    /\ err = FALSE
    /\ nReports = 0
    /\ nPings = 0
    /\ nExt = 0
    /\ extResult = "none"
    /\ pingsInFlight = 0
    /\ pingRetries = 0
    /\ latePing = FALSE
    /\ sideFailed = {}
    /\ reported = <<>>
    /\ timedOut = {}

\* new WorkspaceWorker(...), start() called
Init ==
    /\ limit \in 1..MaxLimit
    /\ runningTasks = 0
    /\ resolveBusy = FALSE
    /\ wakeup = "default"
    /\ pc = "handshake"
    /\ canceled = FALSE
    /\ jobs = [s \in Slots |-> Free]
    /\ unhandled = FALSE
    /\ handshaken = FALSE
    /\ hsFails = 0
    /\ polls = 0
    /\ sleeps = 0
    /\ analytics = FALSE
    /\ signals = 0
    /\ fired = 0
    /\ sleepHandle = "none"
    /\ woken = 0
    /\ lateFetches = 0
    /\ JobIdle

Next ==
    \/ HandshakeFail
    \/ HandshakeOk
    \/ LoopTest
    \/ GetPending
    \/ PollNothing
    \/ PollError
    \/ \E w \in Workspaces : PollWorkspace(w)
    \/ SleepTimeout
    \/ FireWakeup
    \/ Cancel
    \/ \E s \in Slots : HandlerReturn(s)
    \/ \E s \in Slots : HandlerThrow(s)
    \/ \E s \in Slots : JobEnd(s)

Spec == Init /\ [][Next]_vars

-----------------------------------------------------------------------------
(* One job in detail: the specification *)

\* workspace ids and ignore options, as strings over the letters a, b and ","
Names == {<<"a">>, <<"b">>, <<"a", "b">>}
IgnoreOptions == {<<>>, << <<"b">> >>, << <<"a", "b">> >>, << <<"a", ",", "b">> >>}
ProgressInputs == {<<>>, <<0>>, <<29>>, <<30>>, <<42>>}
ModeInputs == {<<>>} \cup {<<m>> : m \in KnownModes \cup UnknownModes}
EnvValues == {<<>>, <<"true">>, <<"false">>}

Infos == [workspace : Names, mode : ModeInputs, progress : ProgressInputs,
          disabled : BOOLEAN]
Options == [console : BOOLEAN, ignore : IgnoreOptions, backup : BOOLEAN,
            fulltextUrl : BOOLEAN, migrationCleanup : EnvValues]

\* the inputs a handler never reads are held at one value
Relevant(w, o) ==
    LET h == Handler(Nullish(w.mode, "active")) IN
    /\ h # "Create" => w.progress = <<>>
    /\ h # "Upgrade" => w.workspace = <<"a">> /\ ~w.disabled /\ o.ignore = <<>>
    /\ h \notin {"Create", "Upgrade"} => o.console
    /\ h \notin {"ArchiveBackup", "MigrateBackup", "Restore"} => ~o.backup
    /\ h \notin {"ArchiveClean", "Delete", "MigrateClean", "Restore"} => ~o.fulltextUrl
    /\ h # "MigrateClean" => o.migrationCleanup = <<>>

\* a worker of limit 1 has just dispatched the workspace it was handed: exec has
\* counted the job in and the poller waits at the gate
JobInit ==
    /\ limit = 1
    /\ runningTasks = 1
    /\ resolveBusy = TRUE
    /\ wakeup = "default"
    /\ pc = "gateWait"
    /\ canceled = FALSE
    /\ jobs = [s \in Slots |-> IF s = 1 THEN [st |-> "running", ws |-> "w1"] ELSE Free]
    /\ unhandled = FALSE
    /\ handshaken = TRUE
    /\ hsFails = 0
    /\ polls = 1
    /\ sleeps = 0
    /\ analytics = FALSE
    /\ signals = 0
    /\ fired = 0
    /\ sleepHandle = "none"
    /\ woken = 0
    /\ lateFetches = 0
    /\ ws \in Infos
    /\ opt \in Options
    /\ Relevant(ws, opt)
    /\ jpc = "dispatch"
    /\ trace = <<>>
    /\ progress = 0
    /\ notifyInt = FALSE
    /\ adapterOpen = FALSE
    /\ loggerOpen = FALSE
    /\ err = FALSE
    /\ nReports = 0
    /\ nPings = 0
    /\ nExt = 0
    /\ extResult = "none"
    /\ pingsInFlight = 0
    /\ pingRetries = 0
    /\ latePing = FALSE
    /\ sideFailed = {}
    /\ reported = <<>>
    /\ timedOut = {}

JobNext ==
    \/ Dispatch
    \/ ExtStarted
    \/ \E p \in {10, 60} : ExtProgress(p)
    \/ ExtDone
    \/ ExtThrow
    \/ ResumeSent
    \/ ResumeTimeout
    \/ CatchPhaseError
    \/ ErrorHandlerReturn
    \/ ErrorHandlerThrow
    \/ StartedSent
    \/ EndpointFail
    \/ EndpointOk
    \/ \E ok \in BOOLEAN : ForceCloseAnswered(ok)
    \/ ForceCloseFail
    \/ DeleteOk
    \/ DeleteThrow
    \/ ReindexOk
    \/ ReindexFail
    \/ SendEventRetry
    \/ DoneSent
    \/ \E raw \in RawValues, ok \in BOOLEAN : Report(raw, ok)
    \/ Tick
    \/ PingRetry
    \/ \E ok \in BOOLEAN : PingSettles(ok)
    \/ \E r \in {"true", "false", "throw"} : BackupSettles(r)
    \/ AdapterClosed
    \/ JobReturns
    \/ JobThrows
    \/ JobEnd(1)

JobSpec == JobInit /\ [][JobNext]_vars

\* the steps of a job that do not wait for an answer of the control-plane to a
\* sendEvent request: the worker's own steps, the external operations and the
\* side calls, which all terminate, and the updates under the 5 s retry wrapper
JobProgress ==
    \/ Dispatch
    \/ ExtStarted
    \/ \E p \in {10, 60} : ExtProgress(p)
    \/ ExtDone
    \/ ExtThrow
    \/ ResumeSent
    \/ ResumeTimeout
    \/ CatchPhaseError
    \/ ErrorHandlerReturn
    \/ ErrorHandlerThrow
    \/ EndpointFail
    \/ EndpointOk
    \/ \E ok \in BOOLEAN : ForceCloseAnswered(ok)
    \/ ForceCloseFail
    \/ DeleteOk
    \/ DeleteThrow
    \/ ReindexOk
    \/ ReindexFail
    \/ \E raw \in RawValues, ok \in BOOLEAN : Report(raw, ok)
    \/ Tick
    \/ PingRetry
    \/ \E ok \in BOOLEAN : PingSettles(ok)
    \/ \E r \in {"true", "false", "throw"} : BackupSettles(r)
    \/ AdapterClosed
    \/ JobReturns
    \/ JobThrows
    \/ JobEnd(1)

\* one job under a control-plane that may fail every request for ever: all
\* steps but the completion of a sendEvent are taken when they can be
JobLiveSpec == JobInit /\ [][JobNext]_vars /\ WF_vars(JobProgress)

-----------------------------------------------------------------------------
(* Properties of the control loop (Spec) *)

\* C1: in every reachable state of the worker, whatever the interleaving of the
\* poller with job starts and job completions, 0 <= runningTasks <= limit.
C1_RunningTasksWithinLimit == 0 <= runningTasks /\ runningTasks <= limit

\* the gate is saturated with two jobs and the poller is suspended on it
C1_Witness ==
    /\ limit = 2
    /\ runningTasks = limit
    /\ pc = "gateWait"
    /\ Cardinality(Occupied) = limit

\* C4: when a job whose handler threw ends, the error is consumed at the
\* dispatched-task boundary (nothing escapes exec), its slot is released once
\* (runningTasks goes down by one and not below 0), resolveBusy is not left set,
\* a poller suspended on the gate is resumed and start() is not ended by it.
C4_ThrowingJobContained ==
    [][\A s \in Slots :
         (jobs[s].st = "rejected" /\ jobs'[s].st = "free") =>
            /\ ~unhandled'
            /\ analytics'
            /\ runningTasks' = runningTasks - 1
            /\ runningTasks' >= 0
            /\ runningTasks' = Cardinality({t \in Slots : jobs'[t].st # "free"})
            /\ ~resolveBusy'
            /\ (pc = "gateWait" => pc' = "acquired")
            /\ (pc # "gateWait" => pc' = pc)]_vars

\* a worker of limit 1 whose only job threw is polling again, all slots free
C4_Witness ==
    /\ limit = 1
    /\ analytics
    /\ runningTasks = 0
    /\ pc = "poll"
    /\ polls >= 2

\* C5: nothing is accepted before workerHandshake has returned successfully:
\* until then no getPendingWorkspace call has been made and no job dispatched,
\* however many handshake attempts have failed.
C5_NoWorkBeforeHandshake ==
    ~handshaken =>
        /\ pc = "handshake"
        /\ polls = 0
        /\ runningTasks = 0
        /\ Occupied = {}

\* the handshake failed twice, then succeeded, and a job has been dispatched
C5_Witness ==
    /\ handshaken
    /\ hsFails >= 2
    /\ polls > 0
    /\ Occupied # {}

\* C6: on cancellation start() does not finish while a dispatched job is still
\* running.
C6_StartWaitsForJobs == pc = "returned" => runningTasks = 0

-----------------------------------------------------------------------------
(* Properties of one job (JobSpec) *)

\* the positions of the trace
Pos == 1..Len(trace)

\* the trace holds a call of e / an event e
Called(e) == \E i \in Pos : trace[i].k = "call" /\ trace[i].e = e
Sent(e) == \E i \in Pos : trace[i].k = "event" /\ trace[i].e = e

\* how often e was called
NCalls(e) == Cardinality({i \in Pos : trace[i].k = "call" /\ trace[i].e = e})

\* the events sent to the control-plane, in order
Events == SelectSeq(trace, LAMBDA x : x.k = "event")

\* the job is over: exec's finally has run
JobOver == jobs[1].st = "free"

\* C2: every destructive phase has the transactor maintenance (force-close) call
\* made before the destroy adapter's deleteWorkspace is called.
C2_ForceCloseBeforeDestroy ==
    \A i \in Pos :
        (trace[i].k = "call" /\ trace[i].e = "deleteWorkspace") =>
            \E j \in 1..(i - 1) :
                trace[j].k = "call" /\ trace[j].e = "sendTransactorMaitenance"

\* C3: whenever the external operation of a phase (createWorkspace,
\* upgradeWorkspace, backup, restore, cleanup) threw, errorHandler has been
\* invoked exactly once by the time the job is over.
C3_ErrorHandlerOnEveryThrow ==
    (JobOver /\ extResult = "threw") => NCalls("errorHandler") = 1

\* C7: within a phase execution the progress values sent to the control-plane
\* for the workspace never decrease, whatever raw values the external backup or
\* restore passes to the report callback.
C7_ProgressMonotone ==
    H \in {"ArchiveBackup", "MigrateBackup", "Restore"} =>
        \A i, j \in Pos :
            (i < j /\ trace[i].k = "event" /\ trace[i].e = "progress"
                   /\ trace[j].k = "event" /\ trace[j].e = "progress")
                => trace[i].p <= trace[j].p

\* the events of a phase have the shape started, (progress | ping)*, done?:
\* the first event is <phase>-started with progress 0 and it is sent once, a
\* <phase>-done is the last event (so it follows the -started one and is sent
\* once), everything between is a progress or keepalive event
PhaseShape ==
    /\ \A i \in 1..Len(Events) :
          /\ Events[i].e \in {Started(H), Done(H), "progress", "ping"}
          /\ (Events[i].e = Started(H)) <=> (i = 1)
          /\ Events[i].e = Done(H) => i = Len(Events)
    /\ Events # <<>> => Events[1].p = 0

\* a phase that succeeded has sent its -done by the time the handler returns;
\* one that failed (threw or came back false) never sends it
PhaseOutcome ==
    /\ (jpc = "returned" /\ extResult = "ok") => Sent(Done(H))
    /\ extResult \in {"threw", "false"} => ~Sent(Done(H))

ResumesCreate ==
    /\ ws.mode = <<"creating">>
    /\ ws.progress # <<>>
    /\ ws.progress[1] >= 30

C9_CreateResume ==
    (H = "Create" /\ jpc # "dispatch") =>
        LET p == IF ws.progress = <<>> THEN 0 ELSE ws.progress[1] IN
        /\ Called("createWorkspace") <=> (ws.mode # <<"creating">> \/ p < 30)
        /\ NCalls("createWorkspace") <= 1
        /\ ~Called("createWorkspace") => Events = <<Ev("create-done", p)>>

\* a workspace in mode creating at progress 42 was resumed: the job is over,
\* createWorkspace was not called and the one event is create-done(42)
C9_Witness ==
    /\ JobOver
    /\ ws.mode = <<"creating">>
    /\ ws.progress = <<42>>
    /\ ~Called("createWorkspace")
    /\ trace = <<Ev("create-done", 42)>>

\* the workspace was left alone by Upgrade: nothing was sent or called
Untouched == trace = <<>>

\* C10: Upgrade is skipped, with no event, no errorHandler call and no external
\* call, if disabled = true or the workspace name is one of the entries of the
\* comma-separated ignore option; for every other workspace dispatched in mode
\* upgrading or active (or without mode) upgradeWorkspace is invoked.
C10_UpgradeSkipRule ==
    (H = "Upgrade" /\ jpc # "dispatch") =>
        IF ws.disabled \/ ws.workspace \in Entries(Nullish(opt.ignore, <<>>))
          THEN Untouched
          ELSE Called("upgradeWorkspace")

\* the routing table of the dispatcher: the 16 recognised modes and the handler
\* of each
RoutingTable ==
    ("pending-creation" :> "Create") @@ ("creating" :> "Create") @@
    ("upgrading" :> "Upgrade") @@ ("active" :> "Upgrade") @@
    ("archiving-pending-backup" :> "ArchiveBackup") @@
    ("archiving-backup" :> "ArchiveBackup") @@
    ("archiving-pending-clean" :> "ArchiveClean") @@
    ("archiving-clean" :> "ArchiveClean") @@
    ("migration-pending-backup" :> "MigrateBackup") @@
    ("migration-backup" :> "MigrateBackup") @@
    ("migration-pending-clean" :> "MigrateClean") @@
    ("migration-clean" :> "MigrateClean") @@
    ("pending-restore" :> "Restore") @@ ("restoring" :> "Restore") @@
    ("pending-deletion" :> "Delete") @@ ("deleting" :> "Delete")

\* the -started and -done events of the handlers that report through sendEvent
PhaseEvents ==
    ("ArchiveBackup" :> <<"archiving-backup-started", "archiving-backup-done">>) @@
    ("ArchiveClean" :> <<"archiving-clean-started", "archiving-clean-done">>) @@
    ("MigrateBackup" :> <<"migrate-backup-started", "migrate-backup-done">>) @@
    ("MigrateClean" :> <<"migrate-clean-started", "migrate-clean-done">>) @@
    ("Restore" :> <<"restore-started", "restore-done">>) @@
    ("Delete" :> <<"delete-started", "delete-done">>)

\* the job shows the marks of handler h: Create calls createWorkspace or sends
\* its lone create-done, Upgrade calls upgradeWorkspace or leaves the workspace
\* alone, every other handler begins with its own -started event; and no event
\* of another phase is sent
RoutedTo(h) ==
    CASE h = "Create" ->
           /\ trace # <<>>
           /\ \/ trace[1] = Call("createWorkspace", 0)
              \/ trace[1].k = "event" /\ trace[1].e = "create-done"
           /\ \A i \in Pos : trace[i].k = "event" =>
                 trace[i].e \in {"create-started", "create-done", "progress", "ping"}
      [] h = "Upgrade" ->
           /\ trace # <<>> => trace[1] = Call("upgradeWorkspace", 0)
           /\ \A i \in Pos : trace[i].k = "event" =>
                 trace[i].e \in {"upgrade-started", "upgrade-done", "progress", "ping"}
      [] OTHER ->
           /\ trace # <<>>
           /\ trace[1] = Ev(PhaseEvents[h][1], 0)
           /\ \A i \in Pos : trace[i].k = "event" =>
                 trace[i].e \in {PhaseEvents[h][1], PhaseEvents[h][2], "progress", "ping"}

\* C11: the dispatcher routes each of the 16 recognised modes to the handler of
\* the routing table, an absent mode being taken as active (Upgrade); for any
\* other mode value the job sends no event and makes no external call, its slot
\* is released and the poller goes on.
C11_DispatcherRouting ==
    jpc # "dispatch" =>
        LET m == IF ws.mode = <<>> THEN "active" ELSE ws.mode[1] IN
        IF m \in DOMAIN RoutingTable
          THEN RoutedTo(RoutingTable[m])
          ELSE /\ trace = <<>>
               /\ ~loggerOpen /\ ~adapterOpen /\ ~notifyInt
               /\ JobOver => (runningTasks = 0 /\ pc = "acquired" /\ ~unhandled
                              /\ ~analytics)

\* a job for a workspace in an unlisted mode is over with nothing sent or called,
\* its slot released and the poller past the gate
C11_Witness ==
    /\ ws.mode = <<"archived">>
    /\ JobOver
    /\ trace = <<>>
    /\ runningTasks = 0
    /\ pc = "acquired"

-----------------------------------------------------------------------------
(* More properties of the control loop (Spec) *)

\* C12: at most one job per workspace id is in flight in a worker at any time,
\* whatever getPendingWorkspace answers, the same workspace again included.
C12_OneJobPerWorkspace ==
    \A s, t \in Slots :
        (s # t /\ jobs[s].st # "free" /\ jobs[t].st # "free")
            => jobs[s].ws # jobs[t].ws

\* C14 as stated: whenever the poller is in its idle sleep (getPendingWorkspace
\* returned nothing), runningTasks = 0.
C14_IdleMeansNoJobs == pc = "sleep" => runningTasks = 0

\* C14 amended: runningTasks counts exactly the jobs in flight, so it is 0
\* whenever none is; and whenever the poller is in its idle sleep a slot is free,
\* runningTasks < limit (which is runningTasks = 0 for limit 1), while jobs
\* dispatched earlier may still be running.
C14_IdleSleepHasFreeSlot ==
    /\ runningTasks = Cardinality(Occupied)
    /\ pc = "sleep" => runningTasks < limit

\* the poller of a worker of limit 2 sleeps while one job is running
C14_Witness ==
    /\ pc = "sleep"
    /\ limit = 2
    /\ runningTasks = 1
    /\ Cardinality(Occupied) = 1

\* the poller is past the gate only with a free slot, and suspended on it
\* only with the gate saturated and its resolver installed
GateStates ==
    /\ pc \in {"acquired", "poll"} => runningTasks < limit
    /\ pc = "gateWait" => (resolveBusy /\ runningTasks = limit)

\* acquire passes at once with a free slot and suspends otherwise; a job
\* completion signals a suspended poller, once, and resumes it; nothing else
\* signals
GateSteps ==
    /\ (pc = "loop" /\ pc' # pc /\ ~canceled) =>
          IF runningTasks < limit
            THEN pc' = "acquired" /\ resolveBusy' = resolveBusy
            ELSE pc' = "gateWait" /\ resolveBusy'
    /\ runningTasks' < runningTasks =>
          /\ runningTasks' = runningTasks - 1
          /\ signals' = IF pc = "gateWait" THEN signals + 1 ELSE signals
          /\ pc = "gateWait" => pc' = "acquired"
          /\ pc # "gateWait" => pc' = pc
          /\ ~resolveBusy'
    /\ signals' # signals => runningTasks' < runningTasks
    /\ polls' # polls => runningTasks < limit

\* C18: the gate lets the poller through at once when runningTasks < limit and
\* suspends it otherwise; each job completion signals a suspended poller exactly
\* once, so a poller suspended on a saturated gate resumes at the next job
\* completion; getPendingWorkspace is never called while runningTasks = limit.
C18_GateNoLostWakeup == []GateStates /\ [][GateSteps]_vars

\* the poller of a worker of limit 2 was suspended on the saturated gate, was
\* resumed by a job completion and is polling again beside the other job
C18_Witness ==
    /\ limit = 2
    /\ signals >= 1
    /\ pc = "poll"
    /\ runningTasks = 1
    /\ polls >= 3

\* a poll ends in a dispatch or, when it brought nothing or threw, in exactly
\* one idle sleep and no dispatch; nothing else starts a sleep; a sleep ends at
\* the top of the loop; start() returns only from the top of the loop, on
\* cancellation
PollSteps ==
    /\ (pc = "poll" /\ pc' # pc) =>
          \/ /\ pc' = "loop"
             /\ runningTasks' = runningTasks + 1
             /\ sleeps' = sleeps
          \/ /\ pc' = "sleep"
             /\ sleeps' = sleeps + 1
             /\ jobs' = jobs
             /\ runningTasks' = runningTasks
    /\ sleeps' # sleeps => (pc = "poll" /\ pc' = "sleep" /\ sleeps' = sleeps + 1)
    /\ (pc = "sleep" /\ pc' # pc) => pc' = "loop"
    /\ (pc' = "returned" /\ pc # "returned") => (pc = "loop" /\ canceled)

\* sleeps never outnumber polls, and a sleeping poller finds the gate open when
\* it wakes, so that its next step, unless cancelled, is another poll
PollStates ==
    /\ sleeps <= polls
    /\ sleeps + Cardinality(Occupied) <= polls
    /\ pc = "sleep" => runningTasks < limit

\* C19: every poll in which getPendingWorkspace returns nothing or throws is
\* followed by exactly one idle sleep and then another poll: k such polls in a
\* row cause exactly k sleeps, no job is dispatched for them, and an error from
\* getPendingWorkspace never ends the loop.
C19_EmptyPollsSleepOnce == []PollStates /\ [][PollSteps]_vars

\* three polls in a row brought nothing: the poller is in its third sleep and
\* no job was ever dispatched
C19_Witness ==
    /\ polls = 3
    /\ sleeps = 3
    /\ pc = "sleep"
    /\ runningTasks = 0
    /\ Occupied = {}

\* the fields of the worker and the state of its loop, history aside
workerState == <<pc, wakeup, sleepHandle, runningTasks, resolveBusy, limit, jobs,
                 canceled, polls, sleeps>>

\* this.wakeup is the function of doSleep, and its timer armed, exactly while
\* the poller sleeps: once a sleep has ended, by wake-up or by timeout, wakeup
\* is the default again and no timer is left; no more sleeps were ended by
\* firings than there were firings, or sleeps
WakeupStates ==
    /\ (wakeup = "sleep") <=> (pc = "sleep")
    /\ (sleepHandle = "armed") <=> (pc = "sleep")
    /\ woken <= fired
    /\ woken <= sleeps

\* a firing during a sleep ends it in that very step, cancels the timer and
\* touches nothing else; a firing at any other time changes no worker state;
\* a sleep ends only by a firing or by its timer
WakeupSteps ==
    /\ fired' # fired =>
          /\ fired' = fired + 1
          /\ IF pc = "sleep"
               THEN /\ pc' = "loop"
                    /\ wakeup' = "default"
                    /\ sleepHandle' = "none"
                    /\ woken' = woken + 1
                    /\ UNCHANGED <<runningTasks, resolveBusy, limit, jobs,
                                   canceled, polls, sleeps>>
               ELSE UNCHANGED <<workerState, woken>>
    /\ (pc = "sleep" /\ pc' # "sleep") =>
          /\ pc' = "loop"
          /\ wakeup' = "default"
          /\ sleepHandle' = "none"
    /\ woken' # woken => (fired' = fired + 1 /\ woken' = woken + 1)

\* C20: firing wakeup during an idle sleep cancels the timer and ends that sleep
\* at once; after a sleep has ended, by wake-up or by timeout, wakeup is the
\* default no-op again, so a firing while the poller is not sleeping changes no
\* worker state and one firing ends at most one sleep.
C20_WakeupEndsOneSleep == []WakeupStates /\ [][WakeupSteps]_vars

\* two sleeps were each ended by a firing, and the poller is polling again with
\* the default wakeup and no timer
C20_Witness ==
    /\ sleeps = 2
    /\ fired = 2
    /\ woken = 2
    /\ pc = "poll"
    /\ wakeup = "default"
    /\ sleepHandle = "none"

-----------------------------------------------------------------------------
(* More properties of one job (JobSpec) *)

\* the handler has left doWorkspaceOperation, by return or by throw
HandlerLeft == jpc \in {"returned", "thrown"}

\* nothing acquired by the phase is still held: the storage adapter is closed,
\* the keepalive interval cleared, the file logger closed
AllReleased == ~adapterOpen /\ ~notifyInt /\ ~loggerOpen

\* whenever the handler has left, everything it acquired is released
ReleasedOnExit == HandlerLeft => AllReleased

\* C13: every storage adapter built and keepalive timer started by a backup or
\* restore phase, and every file logger opened by create or upgrade, is released
\* on every exit path of the phase (success, false result, thrown error), and no
\* ping is sent after the job has ended.
C13_ReleasedAndNoLatePing ==
    /\ ReleasedOnExit
    /\ ~latePing

\* C15: MigrateClean calls the destroy adapter's deleteWorkspace iff the
\* environment variable MIGRATION_CLEANUP is 'true'; set or not, a run in which
\* nothing throws sends migrate-clean-started with progress 0 followed by
\* migrate-clean-done with progress 0 (not 100), and nothing else.
C15_MigrateClean ==
    H = "MigrateClean" =>
        /\ Called("deleteWorkspace") => opt.migrationCleanup = <<"true">>
        /\ NCalls("deleteWorkspace") <= 1
        /\ (HandlerLeft \/ JobOver) =>
              (Called("deleteWorkspace") <=> opt.migrationCleanup = <<"true">>)
        /\ ((HandlerLeft \/ JobOver) /\ extResult # "threw") =>
              Events = <<Ev("migrate-clean-started", 0), Ev("migrate-clean-done", 0)>>

\* a migration clean-up without MIGRATION_CLEANUP is over: the database was not
\* touched and the two events were sent, the second with progress 0
C15_Witness ==
    /\ JobOver
    /\ ws.mode = <<"migration-clean">>
    /\ opt.migrationCleanup = <<>>
    /\ ~Called("deleteWorkspace")
    /\ Called("sendTransactorMaitenance")
    /\ Events = <<Ev("migrate-clean-started", 0), Ev("migrate-clean-done", 0)>>

\* the phases that call doCleanup, and the ones among them that do so in the
\* job at hand
CleaningPhases == {"ArchiveClean", "Delete", "MigrateClean"}
Destroys ==
    \/ H \in {"ArchiveClean", "Delete"}
    \/ H = "MigrateClean" /\ opt.migrationCleanup = <<"true">>

\* the operation the phase is about went well: the database delete where one
\* is made, the backup or restore where opt.backup is set
MainSucceeded ==
    CASE H \in CleaningPhases -> IF Destroys THEN extResult = "ok" ELSE TRUE
      [] H \in {"ArchiveBackup", "MigrateBackup", "Restore"} -> extResult = "ok"
      [] OTHER -> FALSE

\* C16: the best-effort side calls never fail a phase: when the transactor
\* force-close call or the full-text reindex call throws or is answered non-2xx,
\* the error does not leave the handler, the destructive action still runs and
\* the phase still sends its -done event (Delete with a failed reindex sends
\* delete-started(0) and delete-done(100)).
C16_SideCallsBestEffort ==
    sideFailed # {} =>
        /\ jpc = "thrown" => extResult = "threw"
        /\ (HandlerLeft \/ JobOver) =>
              /\ Destroys => Called("deleteWorkspace")
              /\ MainSucceeded =>
                    /\ Events # <<>>
                    /\ Events[Len(Events)] = Ev(Done(H), DoneProgress(H))
              /\ (H = "Delete" /\ extResult = "ok") =>
                    Events = <<Ev("delete-started", 0), Ev("delete-done", 100)>>

\* a Delete whose force-close and reindex calls both failed is over: the
\* database was deleted and both events were sent
C16_Witness ==
    /\ JobOver
    /\ H = "Delete"
    /\ {"force-close", "reindex"} \subseteq sideFailed
    /\ Called("deleteWorkspace")
    /\ Events = <<Ev("delete-started", 0), Ev("delete-done", 100)>>

\* C17: a control-plane that keeps failing updateWorkspaceInfo calls does not
\* stall a job for ever: provided the external operations terminate, every
\* dispatched job eventually finishes and releases its slot.
C17_JobEventuallyFinishes == <>(JobOver /\ runningTasks = 0)

\* the percents of the progress events sent, in order
ProgressSent ==
    LET ps == SelectSeq(trace, LAMBDA x : x.k = "event" /\ x.e = "progress")
    IN  [i \in 1..Len(ps) |-> ps[i].p]

\* what is left of a sequence of rounded percents when every one that equals
\* the value recorded before it (last at first) is dropped
RECURSIVE Debounce(_, _)
Debounce(rs, last) ==
    IF rs = <<>> THEN <<>>
    ELSE IF Head(rs) = last THEN Debounce(Tail(rs), last)
    ELSE <<Head(rs)>> \o Debounce(Tail(rs), Head(rs))

BackupPhases == {"ArchiveBackup", "MigrateBackup", "Restore"}

\* C21 as stated: in backup and restore, reporting the same rounded percent
\* twice in a row results in exactly one progress update.
C21_SameTwiceOneCall ==
    (H \in BackupPhases /\ Len(reported) = 2 /\ reported[1] = reported[2])
        => Len(ProgressSent) = 1

\* C21 amended: a progress event is sent exactly when the rounded percent
\* differs from the last recorded value (0 at first), and it carries the rounded
\* percent; so the same rounded percent reported twice in a row is sent at most
\* once: once if it differs from the value recorded before, and not at all if it
\* equals it (a first report rounding to 0 sends nothing).
C21_ProgressDebounced ==
    H \in BackupPhases =>
        /\ ProgressSent = Debounce(reported, 0)
        /\ progress = IF reported = <<>> THEN 0 ELSE reported[Len(reported)]

\* 0.5 and 1.4 percent were reported in a row, both rounding to 1: one progress
\* event was sent, with 1
C21_Witness ==
    /\ H \in BackupPhases
    /\ reported = <<1, 1>>
    /\ ProgressSent = <<1>>

\* C22: a progress, ping or create-done update that still fails when its 5 s
\* are spent is swallowed: it does not fail the phase, errorHandler is not
\* invoked for it, and the later events of the job are still sent.
C22_FailedUpdateSwallowed ==
    /\ "create-done" \in timedOut =>
          /\ ~err
          /\ jpc \notin {"catch", "errorHandler", "thrown"}
          /\ ~Called("errorHandler")
    /\ (timedOut # {} /\ HandlerLeft /\ extResult = "ok") => Sent(Done(H))

\* the call of e was made before position i of the trace
CalledBefore(e, i) == \E j \in 1..(i - 1) : trace[j].k = "call" /\ trace[j].e = e

\* C23: the reindex request is sent only when fulltextUrl is configured, always
\* after the destroy adapter's deleteWorkspace has returned (clean phases) or
\* after a successful restore, and its onlyDrop flag is true exactly for Delete
\* and false for ArchiveClean, MigrateClean and Restore.
C23_ReindexRule ==
    /\ \A i \in Pos :
          (trace[i].k = "call" /\ trace[i].e = "reindex") =>
             /\ opt.fulltextUrl
             /\ extResult = "ok"
             /\ H \in CleaningPhases \cup {"Restore"}
             /\ H \in CleaningPhases => CalledBefore("deleteWorkspace", i)
             /\ H = "Restore" =>
                   (CalledBefore("doRestoreWorkspace", i) /\ ~adapterOpen)
             /\ trace[i].p = (IF H = "Delete" THEN 1 ELSE 0)
    /\ NCalls("reindex") <= 1
    /\ (opt.fulltextUrl /\ Sent(Done(H)) /\ (Destroys \/ H = "Restore"))
          => Called("reindex")

\* a Delete with fulltextUrl configured is over: the reindex request went out
\* with onlyDrop true after deleteWorkspace
C23_Witness ==
    /\ JobOver
    /\ H = "Delete"
    /\ opt.fulltextUrl
    /\ \E i \in Pos : /\ trace[i] = Call("reindex", 1)
                      /\ CalledBefore("deleteWorkspace", i)
    /\ Sent("delete-done")

CancelSteps ==
    /\ (pc' = "returned" /\ pc # "returned") => (pc = "loop" /\ canceled)
    /\ canceled' # canceled => (canceled' /\ pc' = pc /\ polls' = polls
                                /\ runningTasks' = runningTasks)
    /\ (pc = "loop" /\ canceled /\ pc' # pc) => pc' = "returned"
    /\ runningTasks' > runningTasks => (pc = "poll" /\ pc' = "loop")
    /\ pc = "returned" => /\ pc' = "returned"
                          /\ polls' = polls
                          /\ runningTasks' <= runningTasks

\* the fetches made after the cancel request are those of the iteration that
\* was under way: at most one, and none when the request came before the test
CancelStates ==
    /\ lateFetches <= 1
    /\ lateFetches > 0 => canceled
    /\ pc = "returned" => canceled
    /\ pc \in {"handshake", "acquired", "gateWait"} => lateFetches = 0

\* C25: isCanceled() is consulted only at the top of a loop iteration: once it
\* has returned true nothing more is fetched or dispatched; a cancel request
\* made after the test (poller at the gate, polling or sleeping) lets the
\* iteration run to its end, so at most one more workspace is fetched and
\* dispatched before start() returns.
C25_CancelAtLoopTop == []CancelStates /\ [][CancelSteps]_vars

\* a worker of limit 1 was cancelled after the test of the loop, fetched and
\* dispatched one more workspace, and start() has returned with that job running
C25_Witness ==
    /\ limit = 1
    /\ pc = "returned"
    /\ lateFetches = 1
    /\ runningTasks = 1

\* C26: resolveBusy is non-null only while the poller is suspended in
\* waitForAvailableThread with runningTasks = limit; wherever else the poller
\* is (handshake, loop test, polling, sleeping, returned) resolveBusy is null.
C26_ResolverOnlyAtGate ==
    /\ resolveBusy <=> pc = "gateWait"
    /\ resolveBusy => runningTasks = limit

\* the poller of a worker of limit 2 was released from the gate by a job
\* completion, dispatched again and is suspended a second time, resolver set
C26_Witness ==
    /\ limit = 2
    /\ pc = "gateWait"
    /\ resolveBusy
    /\ runningTasks = 2
    /\ signals >= 1

\* C27: without the backup option a backup or restore phase sends only its
\* -started event: the external backup or restore is not invoked, no storage
\* adapter and no keepalive timer is acquired, no -done event and no
\* errorHandler call follow, and the job ends normally and releases its slot.
C27_NoBackupOption ==
    (H \in BackupPhases /\ ~opt.backup) =>
        /\ Events \in {<<>>, <<Ev(Started(H), 0)>>}
        /\ ~Called("doBackupWorkspace") /\ ~Called("doRestoreWorkspace")
        /\ ~Called("reindex")
        /\ ~Called("errorHandler") /\ ~Called("Analytics.handleError")
        /\ ~adapterOpen /\ ~notifyInt /\ nPings = 0 /\ nExt = 0
        /\ extResult = "none"
        /\ jpc # "thrown" /\ jobs[1].st # "rejected" /\ ~unhandled /\ ~err
        /\ JobOver => (runningTasks = 0 /\ ~resolveBusy /\ pc = "acquired")

\* a backup phase without the backup option is over: -started was sent, nothing
\* else, and the slot is free again
C27_Witness ==
    /\ H = "ArchiveBackup"
    /\ ~opt.backup
    /\ JobOver
    /\ Events = <<Ev("archiving-backup-started", 0)>>
    /\ runningTasks = 0

\* the phases that call sendTransactorMaitenance although the run may destroy
\* nothing
ClosingPhases == {"ArchiveBackup", "MigrateBackup", "MigrateClean"}

\* the trace entry at i is the external operation of the phase or its -done event
AfterClose(i) ==
    \/ trace[i].k = "call" /\ trace[i].e \in {"doBackupWorkspace", "deleteWorkspace"}
    \/ trace[i].k = "event" /\ trace[i].e = Done(H)

\* C28: ArchiveBackup, MigrateBackup and MigrateClean (whatever
\* MIGRATION_CLEANUP is) force-close the serving sessions of the workspace:
\* the transactor maintenance call comes right after the -started event and
\* before the external operation, and its force-close PUT goes out whenever
\* the transactor endpoint could be fetched.
C28_ForceCloseWithoutDestroying ==
    H \in ClosingPhases =>
        /\ \A i \in Pos :
              trace[i] = Call("sendTransactorMaitenance", 0) =>
                  (i = 2 /\ trace[1] = Ev(Started(H), 0))
        /\ \A i \in Pos :
              trace[i] = Call("force-close", 0) =>
                  (i = 3 /\ "getTransactorEndpoint" \notin sideFailed)
        /\ \A i \in Pos :
              AfterClose(i) =>
                  /\ CalledBefore("sendTransactorMaitenance", i)
                  /\ "getTransactorEndpoint" \notin sideFailed
                        => CalledBefore("force-close", i)
        /\ (HandlerLeft \/ JobOver) =>
              /\ Called("sendTransactorMaitenance")
              /\ "getTransactorEndpoint" \notin sideFailed => Called("force-close")

\* a migrate-clean run with MIGRATION_CLEANUP unset is over: the sessions were
\* force-closed between the two events and nothing was deleted
C28_Witness ==
    /\ H = "MigrateClean"
    /\ opt.migrationCleanup = <<>>
    /\ JobOver
    /\ trace = <<Ev("migrate-clean-started", 0), Call("sendTransactorMaitenance", 0),
                 Call("force-close", 0), Ev("migrate-clean-done", 0)>>

=============================================================================
